---- MODULE Spec2Model ----
(***************************************************************************)
(* Model of adafruit_fxas21002c.py: the FXAS21002C gyroscope driver.       *)
(*                                                                         *)
(* The driver talks to the sensor through an I2CDevice.  Every bus call    *)
(* (write, readinto) is one step of the calling thread, as are entering    *)
(* and leaving a "with self._device:" block, so that a failing bus call    *)
(* and the interleaving of two callers are both visible.  The scratch      *)
(* buffer _BUFFER is a class attribute: one buffer for all driver objects. *)
(***************************************************************************)
EXTENDS Integers, Sequences, FiniteSets, TLC

\* ------------------------------------------------------------------------
\* Module constants of the driver (lines 40-62).
FXAS21002C_ID == 215
GYRO_REGISTER_STATUS == 0
GYRO_REGISTER_WHO_AM_I == 12
GYRO_REGISTER_CTRL_REG0 == 13
GYRO_REGISTER_CTRL_REG1 == 19
GYRO_RANGE_250DPS == 250
GYRO_RANGE_500DPS == 500
GYRO_RANGE_1000DPS == 1000
GYRO_RANGE_2000DPS == 2000

\* A float is modelled exactly, as a fraction <<n, d>> in lowest terms;
\* Decimal(n, d) is the value of a decimal literal n/d.
RECURSIVE GCD(_, _)
GCD(a, b) == IF b = 0 THEN a ELSE GCD(b, a % b)
Decimal(n, d) == <<n \div GCD(n, d), d \div GCD(n, d)>>

GYRO_SENSITIVITY_250DPS == Decimal(78125, 10000000)
GYRO_SENSITIVITY_500DPS == Decimal(15625, 1000000)
GYRO_SENSITIVITY_1000DPS == Decimal(3125, 100000)
GYRO_SENSITIVITY_2000DPS == Decimal(625, 10000)

\* The tuple the assert of __init__ tests membership in.
Ranges == {GYRO_RANGE_250DPS, GYRO_RANGE_500DPS, GYRO_RANGE_1000DPS, GYRO_RANGE_2000DPS}

\* ------------------------------------------------------------------------
\* Bounds of the model: the inputs the environment may supply.
\* Values a caller may pass as gyro_range: the four ranges and two others.
RangeArgs == Ranges \cup {0, 125}
\* Bytes the device may answer to a read of WHO_AM_I.
IdBytes == {FXAS21002C_ID, 0, 214, 255}
\* Driver objects that may be created.
Drivers == {1, 2}
\* 7-byte answers to a burst read: all bytes 0x00 or all 0xFF, the same with any
\* one byte flipped to the other extreme, and the answers of the documented examples.
FullResponses ==
    { [i \in 1..7 |-> IF i = k THEN 255 - b ELSE b] : k \in 0..7, b \in {0, 255} } \cup
    { <<0, 1, 2, 3, 4, 5, 6>>, <<0, 0, 16, 0, 0, 0, 0>>, <<255, 1, 2, 0, 0, 0, 0>> }
\* Smaller sets, for the runs with two interleaved callers.
FewRangeArgs == {GYRO_RANGE_500DPS, 125}
FewIdBytes == {FXAS21002C_ID, 0}
FewResponses == { <<0, 1, 2, 3, 4, 5, 6>>, <<255, 255, 0, 0, 255, 128, 1>> }

\* Operations a caller may start, in the runs with one caller and with two.
MaxCalls == 4
MaxCallsConc == 2

None == "None"

\* ------------------------------------------------------------------------
\* Integer operators of Python used by the driver.
RECURSIVE BitOr(_, _)
BitOr(a, b) ==
    IF a = 0 THEN b
    ELSE IF b = 0 THEN a
    ELSE (IF a % 2 = 1 \/ b % 2 = 1 THEN 1 ELSE 0) + 2 * BitOr(a \div 2, b \div 2)

RECURSIVE BitAnd(_, _)
BitAnd(a, b) ==
    IF a = 0 \/ b = 0 THEN 0
    ELSE (IF a % 2 = 1 /\ b % 2 = 1 THEN 1 ELSE 0) + 2 * BitAnd(a \div 2, b \div 2)

Shl(a, n) == a * (2 ^ n)

\* x * c for an int x and a float c = <<n, d>>: the exact product, as a fraction.
FMul(x, c) == <<x * c[1], c[2]>>
\* Literals of the code: the activation byte written to CTRL_REG1 (line 96)
\* and the read/auto-increment flag or-ed into the burst address (line 121).
CTRL_REG1_ACTIVE == 14
READ_FLAG == 128

\* ------------------------------------------------------------------------
\* State.
Threads == {1, 2}

VARIABLES
    env,         \* the environment of the run, fixed by Init: the callers, the objects,
                 \* the arguments and device answers that may occur, the calls per caller
    calls,       \* the number of operations each caller has started
    BUFFER,      \* FXAS21002C._BUFFER, the class-level bytearray(7); BUFFER[i+1] is _BUFFER[i]
    locked,      \* the bus lock taken by I2CDevice.__enter__ and dropped by __exit__
    gyro_range,  \* self._gyro_range of each driver object: <<r>>, and <<>> while there is no object
    constructed, \* whether __init__ of the object has returned
    pc,          \* position of each caller
    op,          \* the operation each caller runs
    self,        \* the driver object each caller runs it on
    arg,         \* the gyro_range argument of a running __init__
    ctrlReg0,    \* local of __init__
    exc,         \* the exception in flight or raised by the caller's operation
    raw,         \* what read_raw returned (the local raw of gyroscope), <<>> before
    result,      \* what the operation returned, <<>> for None
    got,         \* history: the bytes the device gave to the caller's own readinto
    trace,       \* history: the bus calls of the caller's current operation, in order
    owner        \* history: the caller whose bus call wrote BUFFER last

vars == <<env, calls, BUFFER, locked, gyro_range, constructed, pc, op, self,
          arg, ctrlReg0, exc, raw, result, got, trace, owner>>

\* One entry of trace: the call, the bytes written (or the number of bytes asked
\* for), whether a stop condition ends it, and whether it succeeded.
Ev(kind, data, stop, ok) == <<kind, data, stop, ok>>

Idle == {"idle", "returned", "raised"}
\* Positions inside a "with self._device:" block.
InWith == {"id_write", "id_read", "id_exit", "c0_write", "c0_exit",
           "c1_write", "c1_exit", "rr_write", "rr_read", "rr_exit"}

InitWith(e) ==
    /\ env = e
    /\ calls = [t \in Threads |-> 0]
    /\ BUFFER = [i \in 1..7 |-> 0]
    /\ locked = FALSE
    /\ gyro_range = [d \in Drivers |-> <<>>]
    /\ constructed = [d \in Drivers |-> FALSE]
    /\ pc = [t \in Threads |-> "idle"]
    /\ op = [t \in Threads |-> None]
    /\ self = [t \in Threads |-> 0]
    /\ arg = [t \in Threads |-> 0]
    /\ ctrlReg0 = [t \in Threads |-> 0]
    /\ exc = [t \in Threads |-> None]
    /\ raw = [t \in Threads |-> <<>>]
    /\ result = [t \in Threads |-> <<>>]
    /\ got = [t \in Threads |-> <<>>]
    /\ trace = [t \in Threads |-> <<>>]
    /\ owner = 0

\* The two environments: a single caller with the full sets of inputs, and two
\* callers with the smaller ones.
SeqEnv == [threads |-> {1}, drivers |-> Drivers, rangeArgs |-> RangeArgs,
           idBytes |-> IdBytes, responses |-> FullResponses, maxCalls |-> MaxCalls]
ConcEnv == [threads |-> Threads, drivers |-> Drivers, rangeArgs |-> FewRangeArgs,
            idBytes |-> FewIdBytes, responses |-> FewResponses, maxCalls |-> MaxCallsConc]

\* One caller, as the driver expects.
Init == InitWith(SeqEnv)
\* Two callers whose operations interleave.
InitConc == InitWith(ConcEnv)

\* A caller starts a new operation: the locals and the history of the last one go.
Begin(t, o, d, r) ==
    /\ op' = [op EXCEPT ![t] = o]
    /\ self' = [self EXCEPT ![t] = d]
    /\ arg' = [arg EXCEPT ![t] = r]
    /\ ctrlReg0' = [ctrlReg0 EXCEPT ![t] = 0]
    /\ raw' = [raw EXCEPT ![t] = <<>>]
    /\ result' = [result EXCEPT ![t] = <<>>]
    /\ got' = [got EXCEPT ![t] = <<>>]
    /\ trace' = [trace EXCEPT ![t] = <<>>]
    /\ calls[t] < env.maxCalls
    /\ calls' = [calls EXCEPT ![t] = @ + 1]

\* An exception leaves __init__: the caller gets no object.
Discard(t) == [gyro_range EXCEPT ![self[t]] = <<>>]

\* ------------------------------------------------------------------------
\* __init__ (lines 71-97).

\* A constructor without the assert.
ValidRange_Any(r) == TRUE

\* The assert of lines 73-74.
ValidRange(r) == r \in Ranges

\* The config bytes in ascending instead of descending order.
CtrlReg0Of_Ascending(r) ==
    IF r = GYRO_RANGE_250DPS THEN 0
    ELSE IF r = GYRO_RANGE_500DPS THEN 1
    ELSE IF r = GYRO_RANGE_1000DPS THEN 2
    ELSE IF r = GYRO_RANGE_2000DPS THEN 3
    ELSE 0

\* Lines 80-88: the if/elif chain, which starts from ctrlReg0 = 0x00.
CtrlReg0Of(r) ==
    IF r = GYRO_RANGE_250DPS THEN 3
    ELSE IF r = GYRO_RANGE_500DPS THEN 2
    ELSE IF r = GYRO_RANGE_1000DPS THEN 1
    ELSE IF r = GYRO_RANGE_2000DPS THEN 0
    ELSE 0

\* An identity check that accepts any device that answers.
IdMatches_NonZero(b) == b # 0

\* Line 78: the comparison of the identity byte.
IdMatches(b) == b = FXAS21002C_ID

\* FXAS21002C(i2c, gyro_range=r) on a new object d: the assert, then line 75.
\* (Line 76 builds the I2CDevice, which issues no call of this driver.)
Call_init(t, d, r) ==
    /\ t \in env.threads
    /\ pc[t] \in Idle
    /\ gyro_range[d] = <<>>
    /\ \A u \in Threads : ~(pc[u] \notin Idle /\ op[u] = "__init__" /\ self[u] = d)
    /\ Begin(t, "__init__", d, r)
    /\ IF ValidRange(r)
       THEN /\ gyro_range' = [gyro_range EXCEPT ![d] = <<r>>]
            /\ pc' = [pc EXCEPT ![t] = "id_enter"]
            /\ exc' = [exc EXCEPT ![t] = None]
       ELSE /\ gyro_range' = gyro_range
            /\ pc' = [pc EXCEPT ![t] = "raised"]
            /\ exc' = [exc EXCEPT ![t] = "AssertionError"]
    /\ UNCHANGED <<env, BUFFER, locked, constructed, owner>>

\* read_raw() or the gyroscope property on a driver the constructor returned.
Call_read(t, d, o) ==
    /\ t \in env.threads
    /\ pc[t] \in Idle
    /\ constructed[d]
    /\ Begin(t, o, d, 0)
    /\ pc' = [pc EXCEPT ![t] = "rr_enter"]
    /\ exc' = [exc EXCEPT ![t] = None]
    /\ UNCHANGED <<env, BUFFER, locked, gyro_range, constructed, owner>>

\* ------------------------------------------------------------------------
\* "with self._device:" (lines 101, 109, 120).

\* A with block that does not wait for the bus.
MayEnter_NoLock(l) == TRUE

\* Whether __enter__ gets the bus: I2CDevice spins on try_lock until it is free.
MayEnter(l) == ~l

\* __enter__.
Enter(t) ==
    /\ pc[t] \in {"id_enter", "c0_enter", "c1_enter", "rr_enter"}
    /\ MayEnter(locked)
    /\ locked' = TRUE
    /\ pc' = [pc EXCEPT ![t] =
            CASE pc[t] = "id_enter" -> "id_write"
              [] pc[t] = "c0_enter" -> "c0_write"
              [] pc[t] = "c1_enter" -> "c1_write"
              [] pc[t] = "rr_enter" -> "rr_write"]
    /\ trace' = [trace EXCEPT ![t] = Append(@, Ev("enter", <<>>, FALSE, TRUE))]
    /\ UNCHANGED <<env, calls, BUFFER, gyro_range, constructed, op, self, arg,
                   ctrlReg0, exc, raw, result, got, owner>>

\* An unlock at the end of the block, skipped when the block raises.
Unlock_OnSuccessOnly(e) == e # None

\* The lock after __exit__, which the with statement runs on every way out of
\* the block; e is the exception in flight, if any.
Unlock(e) == FALSE

\* A constructor that sleeps right after the write to CTRL_REG0.
AfterWith_NoActivate(p) ==
    CASE p = "id_exit" -> "id_ret"
      [] p = "c0_exit" -> "sleep"
      [] p = "c1_exit" -> "sleep"
      [] p = "rr_exit" -> "rr_parse"

\* Where the code goes on after a with block that raised nothing.
AfterWith(p) ==
    CASE p = "id_exit" -> "id_ret"
      [] p = "c0_exit" -> "c1_enter"
      [] p = "c1_exit" -> "sleep"
      [] p = "rr_exit" -> "rr_parse"

\* __exit__, and the exception of the block, if any, going up to the caller.
Exit(t) ==
    /\ pc[t] \in {"id_exit", "c0_exit", "c1_exit", "rr_exit"}
    /\ locked' = Unlock(exc[t])
    /\ pc' = [pc EXCEPT ![t] = IF exc[t] # None THEN "raised" ELSE AfterWith(pc[t])]
    /\ gyro_range' = IF exc[t] # None /\ op[t] = "__init__" THEN Discard(t) ELSE gyro_range
    /\ trace' = [trace EXCEPT ![t] = Append(@, Ev("exit", <<>>, FALSE, TRUE))]
    /\ UNCHANGED <<env, calls, BUFFER, constructed, op, self, arg,
                   ctrlReg0, exc, raw, result, got, owner>>

\* A failed bus call that is made again.
OnFail_Retry(p) == p

\* What a bus call that fails does to the caller: the OSError of the bus goes up
\* through the with block; nothing catches it.
OnFail(p) ==
    CASE p \in {"id_write", "id_read"} -> "id_exit"
      [] p = "c0_write" -> "c0_exit"
      [] p = "c1_write" -> "c1_exit"
      [] p \in {"rr_write", "rr_read"} -> "rr_exit"

\* A bus call of caller t at position p ends: ok, and the code goes on to nxt, or
\* not ok, and the OSError goes up.  ev is the call, as the bus saw it.
BusCall(t, ev, ok, nxt) ==
    /\ trace' = [trace EXCEPT ![t] = Append(@, ev)]
    /\ pc' = [pc EXCEPT ![t] = IF ok THEN nxt ELSE OnFail(pc[t])]
    /\ exc' = [exc EXCEPT ![t] = IF ok THEN @ ELSE "OSError"]

\* ------------------------------------------------------------------------
\* _read_u8(_GYRO_REGISTER_WHO_AM_I) (lines 99-105) and the check of line 78.

\* Lines 102-103.
ReadU8_write(t) ==
    /\ pc[t] = "id_write"
    /\ LET buf == [BUFFER EXCEPT ![1] = BitAnd(GYRO_REGISTER_WHO_AM_I, 255)]
       IN /\ BUFFER' = buf
          /\ owner' = t
          /\ \E ok \in BOOLEAN :
                BusCall(t, Ev("write", SubSeq(buf, 1, 1), FALSE, ok), ok, "id_read")
    /\ UNCHANGED <<env, calls, locked, gyro_range, constructed, op, self, arg,
                   ctrlReg0, raw, result, got>>

\* Line 104: the device answers one byte, or the call fails and the buffer stays.
ReadU8_readinto(t) ==
    /\ pc[t] = "id_read"
    /\ \E ok \in BOOLEAN, b \in env.idBytes :
          /\ BUFFER' = IF ok THEN [BUFFER EXCEPT ![1] = b] ELSE BUFFER
          /\ owner' = IF ok THEN t ELSE owner
          /\ got' = [got EXCEPT ![t] = IF ok THEN <<b>> ELSE @]
          /\ BusCall(t, Ev("readinto", <<1>>, TRUE, ok), ok, "id_exit")
    /\ UNCHANGED <<env, calls, locked, gyro_range, constructed, op, self, arg,
                   ctrlReg0, raw, result>>

\* Line 105 (return self._BUFFER[0], after the with block), then lines 78-88.
ReadU8_return(t) ==
    /\ pc[t] = "id_ret"
    /\ IF IdMatches(BUFFER[1])
       THEN /\ ctrlReg0' = [ctrlReg0 EXCEPT ![t] = CtrlReg0Of(arg[t])]
            /\ pc' = [pc EXCEPT ![t] = "c0_enter"]
            /\ UNCHANGED <<exc, gyro_range>>
       ELSE /\ pc' = [pc EXCEPT ![t] = "raised"]
            /\ exc' = [exc EXCEPT ![t] = "RuntimeError"]
            /\ gyro_range' = Discard(t)
            /\ UNCHANGED ctrlReg0
    /\ UNCHANGED <<env, calls, BUFFER, locked, constructed, op, self, arg,
                   raw, result, got, trace, owner>>

\* ------------------------------------------------------------------------
\* _write_u8 (lines 107-112), called at lines 95 and 96.
WriteU8_write(t) ==
    /\ pc[t] \in {"c0_write", "c1_write"}
    /\ LET address == IF pc[t] = "c0_write" THEN GYRO_REGISTER_CTRL_REG0
                      ELSE GYRO_REGISTER_CTRL_REG1
           val == IF pc[t] = "c0_write" THEN ctrlReg0[t] ELSE CTRL_REG1_ACTIVE
           buf == [BUFFER EXCEPT ![1] = BitAnd(address, 255), ![2] = BitAnd(val, 255)]
       IN /\ BUFFER' = buf
          /\ owner' = t
          /\ \E ok \in BOOLEAN :
                BusCall(t, Ev("write", SubSeq(buf, 1, 2), TRUE, ok), ok,
                        IF pc[t] = "c0_write" THEN "c0_exit" ELSE "c1_exit")
    /\ UNCHANGED <<env, calls, locked, gyro_range, constructed, op, self, arg,
                   ctrlReg0, raw, result, got>>

\* Line 97: time.sleep(0.1), and __init__ returns.
Sleep(t) ==
    /\ pc[t] = "sleep"
    /\ trace' = [trace EXCEPT ![t] = Append(@, Ev("sleep", <<>>, FALSE, TRUE))]
    /\ pc' = [pc EXCEPT ![t] = "returned"]
    /\ constructed' = [constructed EXCEPT ![self[t]] = TRUE]
    /\ UNCHANGED <<env, calls, BUFFER, locked, gyro_range, op, self, arg,
                   ctrlReg0, exc, raw, result, got, owner>>

\* ------------------------------------------------------------------------
\* read_raw (lines 114-136).

\* The burst address without the read flag.
BurstAddress_NoFlag == GYRO_REGISTER_STATUS

\* Line 121: _GYRO_REGISTER_STATUS | 0x80.
BurstAddress == BitOr(GYRO_REGISTER_STATUS, READ_FLAG)

\* Lines 133-135: ((hi << 8) | lo) & 0xFFFF.
Pack16(hi, lo) == BitAnd(BitOr(Shl(hi, 8), lo), 65535)

\* The axes taken one byte early, from the status byte on.
Axes_FromStatus(buf) ==
    <<Pack16(buf[1], buf[2]), Pack16(buf[3], buf[4]), Pack16(buf[5], buf[6])>>

\* Lines 125-136: the tuple read_raw makes of the buffer.
Axes(buf) == <<Pack16(buf[2], buf[3]), Pack16(buf[4], buf[5]), Pack16(buf[6], buf[7])>>

\* Lines 121-122.
ReadRaw_write(t) ==
    /\ pc[t] = "rr_write"
    /\ LET buf == [BUFFER EXCEPT ![1] = BurstAddress]
       IN /\ BUFFER' = buf
          /\ owner' = t
          /\ \E ok \in BOOLEAN :
                BusCall(t, Ev("write", SubSeq(buf, 1, 1), FALSE, ok), ok, "rr_read")
    /\ UNCHANGED <<env, calls, locked, gyro_range, constructed, op, self, arg,
                   ctrlReg0, raw, result, got>>

\* Line 123: readinto fills the whole buffer.
ReadRaw_readinto(t) ==
    /\ pc[t] = "rr_read"
    /\ \E ok \in BOOLEAN, r \in env.responses :
          /\ BUFFER' = IF ok THEN r ELSE BUFFER
          /\ owner' = IF ok THEN t ELSE owner
          /\ got' = [got EXCEPT ![t] = IF ok THEN r ELSE @]
          /\ BusCall(t, Ev("readinto", <<Len(BUFFER)>>, TRUE, ok), ok, "rr_exit")
    /\ UNCHANGED <<env, calls, locked, gyro_range, constructed, op, self, arg,
                   ctrlReg0, raw, result>>

\* Lines 125-136, after the with block: read_raw returns, to its caller or to
\* the gyroscope property (line 143).
ReadRaw_parse(t) ==
    /\ pc[t] = "rr_parse"
    /\ raw' = [raw EXCEPT ![t] = Axes(BUFFER)]
    /\ IF op[t] = "read_raw"
       THEN /\ result' = [result EXCEPT ![t] = Axes(BUFFER)]
            /\ pc' = [pc EXCEPT ![t] = "returned"]
       ELSE /\ result' = result
            /\ pc' = [pc EXCEPT ![t] = "scale"]
    /\ UNCHANGED <<env, calls, BUFFER, locked, gyro_range, constructed, op, self,
                   arg, ctrlReg0, exc, got, trace, owner>>

\* ------------------------------------------------------------------------
\* gyroscope (lines 138-152).

\* The 250 dps constant used for every range.
Scaled_Always250(r, xs) == [i \in 1..3 |-> FMul(xs[i], GYRO_SENSITIVITY_250DPS)]

\* Lines 145-152: the map over raw, by range; with no branch taken the property
\* returns None.
Scaled(r, xs) ==
    IF r = GYRO_RANGE_250DPS THEN [i \in 1..3 |-> FMul(xs[i], GYRO_SENSITIVITY_250DPS)]
    ELSE IF r = GYRO_RANGE_500DPS THEN [i \in 1..3 |-> FMul(xs[i], GYRO_SENSITIVITY_500DPS)]
    ELSE IF r = GYRO_RANGE_1000DPS THEN [i \in 1..3 |-> FMul(xs[i], GYRO_SENSITIVITY_1000DPS)]
    ELSE IF r = GYRO_RANGE_2000DPS THEN [i \in 1..3 |-> FMul(xs[i], GYRO_SENSITIVITY_2000DPS)]
    ELSE <<>>

Gyroscope_scale(t) ==
    /\ pc[t] = "scale"
    /\ result' = [result EXCEPT ![t] = Scaled(gyro_range[self[t]][1], raw[t])]
    /\ pc' = [pc EXCEPT ![t] = "returned"]
    /\ UNCHANGED <<env, calls, BUFFER, locked, gyro_range, constructed, op, self,
                   arg, ctrlReg0, exc, raw, got, trace, owner>>

\* ------------------------------------------------------------------------
Next ==
    \E t \in Threads :
        \/ \E d \in env.drivers, r \in env.rangeArgs : Call_init(t, d, r)
        \/ \E d \in env.drivers, o \in {"read_raw", "gyroscope"} : Call_read(t, d, o)
        \/ Enter(t)
        \/ Exit(t)
        \/ ReadU8_write(t)
        \/ ReadU8_readinto(t)
        \/ ReadU8_return(t)
        \/ WriteU8_write(t)
        \/ Sleep(t)
        \/ ReadRaw_write(t)
        \/ ReadRaw_readinto(t)
        \/ ReadRaw_parse(t)
        \/ Gyroscope_scale(t)

Spec == Init /\ [][Next]_vars
SpecConc == InitConc /\ [][Next]_vars

\* ========================================================================
\* Properties.

\* Bus calls, as the claims name them.
EvEnter == Ev("enter", <<>>, FALSE, TRUE)
EvExit == Ev("exit", <<>>, FALSE, TRUE)
EvSleep == Ev("sleep", <<>>, FALSE, TRUE)
\* A write of bytes, ended by a stop condition or not, that succeeded.
EvWrite(bytes, stop) == Ev("write", bytes, stop, TRUE)
\* A read of n bytes that succeeded.
EvRead(n) == Ev("readinto", <<n>>, TRUE, TRUE)

\* Equality of two fractions.
FEq(p, q) == p[1] * q[2] = q[1] * p[2]

IsBusCall(e) == e[1] \in {"write", "readinto"}
IsPrefix(a, b) == Len(a) <= Len(b) /\ a = SubSeq(b, 1, Len(a))
\* The writes of a value to register reg that the bus carried out.
WritesTo(tr, reg) ==
    SelectSeq(tr, LAMBDA e : e[1] = "write" /\ e[4] /\ Len(e[2]) = 2 /\ e[2][1] = reg)
ConfigWrites(tr) ==
    SelectSeq(tr, LAMBDA e : e[1] = "write" /\ e[4] /\ Len(e[2]) = 2 /\ e[2][1] \in {13, 19})

\* The table of section 4.1: range -> config byte.
ConfigByte == (250 :> 3) @@ (500 :> 2) @@ (1000 :> 1) @@ (2000 :> 0)

\* ------------------------------------------------------------------------
\* C1: a construction whose read of WHO_AM_I gave a byte other than 0xD7 ends
\* with the RuntimeError of line 79 (DeviceNotFound), yields no driver, and
\* writes neither CTRL_REG0 nor CTRL_REG1, whatever range was asked for.
C1_IdMismatchFails ==
    \A t \in Threads :
        (op[t] = "__init__" /\ got[t] # <<>> /\ got[t][1] # 215) =>
            /\ pc[t] \in {"id_exit", "id_ret", "raised"}
            /\ ConfigWrites(trace[t]) = <<>>
            /\ ~constructed[self[t]]
            /\ pc[t] = "raised" => (exc[t] = "RuntimeError" /\ gyro_range[self[t]] = <<>>)

C1_Witness ==
    \E t \in Threads :
        /\ op[t] = "__init__" /\ pc[t] = "raised" /\ exc[t] = "RuntimeError"
        /\ got[t] = <<214>> /\ arg[t] = 2000

\* C2: a construction that returns wrote to CTRL_REG0 (0x0D), once, the byte of
\* the table for its range; the code's mapping of the four ranges is one-to-one
\* onto {0, 1, 2, 3}.
C2_ConfigByteWritten ==
    /\ \A t \in Threads :
          (op[t] = "__init__" /\ pc[t] = "returned") =>
              WritesTo(trace[t], 13) = <<EvWrite(<<13, ConfigByte[arg[t]]>>, TRUE)>>
    /\ {CtrlReg0Of(r) : r \in Ranges} = {0, 1, 2, 3}
    /\ \A r1, r2 \in Ranges : CtrlReg0Of(r1) = CtrlReg0Of(r2) => r1 = r2

C2_Witness ==
    \E t \in Threads :
        /\ op[t] = "__init__" /\ pc[t] = "returned" /\ arg[t] = 500
        /\ WritesTo(trace[t], 13) = <<EvWrite(<<13, 2>>, TRUE)>>

\* The calls of a whole construction with range r.
C3_Sequence(r) ==
    << EvEnter, EvWrite(<<12>>, FALSE), EvRead(1), EvExit,
       EvEnter, EvWrite(<<13, ConfigByte[r]>>, TRUE), EvExit,
       EvEnter, EvWrite(<<19, 14>>, TRUE), EvExit,
       EvSleep >>

\* C3: a construction that returns has made exactly these calls, in this order:
\* the read of register 0x0C, the write of the config byte to 0x0D, the write of
\* 0x0E to 0x13, the delay; while it runs without failure its calls are a prefix
\* of that sequence, so no burst read and no other write comes before it returns.
C3_ConstructionOrder ==
    \A t \in Threads :
        (op[t] = "__init__" /\ arg[t] \in Ranges) =>
            /\ exc[t] = None => IsPrefix(trace[t], C3_Sequence(arg[t]))
            /\ pc[t] = "returned" => trace[t] = C3_Sequence(arg[t])

C3_Witness ==
    \E t \in Threads :
        /\ op[t] = "__init__" /\ pc[t] = "returned" /\ arg[t] = 250
        /\ Len(trace[t]) = 11

\* The axes of a 7-byte answer, as the specification packs them.
C4_Expected(b) == <<b[2] * 256 + b[3], b[4] * 256 + b[5], b[6] * 256 + b[7]>>

\* C4: read_raw returns (xhi*256 + xlo, yhi*256 + ylo, zhi*256 + zlo) of the 7
\* bytes its readinto got, each in 0..65535: a function of bytes 2..7 of the
\* answer alone, not of the status byte, the range or the buffer's old content.
C4_ReadRawPacks ==
    \A t \in Threads :
        (op[t] = "read_raw" /\ pc[t] = "returned") =>
            /\ result[t] = C4_Expected(got[t])
            /\ \A i \in 1..3 : result[t][i] \in 0..65535

C4_Witness ==
    \E t \in Threads :
        /\ op[t] = "read_raw" /\ pc[t] = "returned"
        /\ got[t] = <<0, 1, 2, 3, 4, 5, 6>> /\ result[t] = <<258, 772, 1286>>
        /\ calls[t] >= 3

\* The calls of one burst transaction.
C5_Burst == <<EvEnter, EvWrite(<<128>>, FALSE), EvRead(7), EvExit>>

\* C5: a read_raw or gyroscope access that returns has made exactly one burst
\* transaction: inside one with block, one write of the single byte 0x80 with no
\* stop condition, then one read of 7 bytes; the same for every range.  While it
\* runs without failure its calls are a prefix of that.
C5_OneBurst ==
    \A t \in Threads :
        op[t] \in {"read_raw", "gyroscope"} =>
            /\ exc[t] = None => IsPrefix(trace[t], C5_Burst)
            /\ pc[t] = "returned" => trace[t] = C5_Burst

C5_Witness ==
    \E t \in Threads :
        /\ op[t] = "gyroscope" /\ pc[t] = "returned" /\ trace[t] = C5_Burst
        /\ gyro_range[self[t]] = <<1000>>

\* The sensitivity table of the specification, the values it gives, and the
\* steps that leave the range of a constructed driver alone.
C6_Constant == (250 :> <<1, 128>>) @@ (500 :> <<1, 64>>) @@ (1000 :> <<1, 32>>)
               @@ (2000 :> <<1, 16>>)

C6_ScaledValues ==
    \A t \in Threads :
        (op[t] = "gyroscope" /\ pc[t] = "returned") =>
            LET c == C6_Constant[gyro_range[self[t]][1]]
                xs == C4_Expected(got[t])
            IN /\ Len(result[t]) = 3
               /\ \A i \in 1..3 : FEq(result[t][i], <<xs[i] * c[1], c[2]>>)

C6_RangeFixed ==
    \A d \in Drivers : constructed[d] => (constructed'[d] /\ gyro_range'[d] = gyro_range[d])

\* C6: the gyroscope property returns, in the order X, Y, Z, each raw value of
\* its own read times the constant of the range given at construction
\* (250 -> 1/128, 500 -> 1/64, 1000 -> 1/32, 2000 -> 1/16), and no step changes
\* the range of a constructed driver.
C6_ScaledByRange == []C6_ScaledValues /\ [][C6_RangeFixed]_vars

C6_Witness ==
    \E t \in Threads :
        /\ op[t] = "gyroscope" /\ pc[t] = "returned"
        /\ gyro_range[self[t]] = <<2000>> /\ got[t] = <<0, 0, 16, 0, 0, 0, 0>>
        /\ FEq(result[t][1], <<1, 1>>)
        /\ calls[t] >= 3

\* Every bus call of tr lies between an enter and the exit that follows it.
C7_Bracketed(tr) ==
    \A i \in 1..Len(tr) :
        LET before == SubSeq(tr, 1, i)
            enters == Len(SelectSeq(before, LAMBDA e : e[1] = "enter"))
            exits == Len(SelectSeq(before, LAMBDA e : e[1] = "exit"))
        IN IF IsBusCall(tr[i]) THEN enters = exits + 1 ELSE enters \in {exits, exits + 1}

\* C7: the bus lock is held exactly while a caller is inside a with block, and
\* in the calls of an operation that has returned or raised every bus call lies
\* between an enter and its exit: nothing is left held, failure or not.
C7_ScopedTransactions ==
    /\ locked <=> (\E t \in Threads : pc[t] \in InWith)
    /\ \A t \in Threads :
          /\ C7_Bracketed(trace[t])
          /\ pc[t] \in Idle =>
                Len(SelectSeq(trace[t], LAMBDA e : e[1] = "enter"))
                    = Len(SelectSeq(trace[t], LAMBDA e : e[1] = "exit"))

C7_Witness ==
    \E t \in Threads :
        /\ pc[t] = "raised" /\ exc[t] = "OSError" /\ ~locked
        /\ Len(SelectSeq(trace[t], LAMBDA e : e[1] = "exit")) = 2

\* The bus calls of tr that failed.
C8_Failed(tr) == SelectSeq(tr, LAMBDA e : IsBusCall(e) /\ ~e[4])

\* C8, amended: an operation whose bus call fails raises the bus error to its
\* caller; the failed call is the last bus call it makes (no retry, no further
\* call), it returns no value and, for a construction, yields no driver; an
\* operation that returns had no failed call.  Writes made before the failure stay.
C8_FailsAsAWhole ==
    \A t \in Threads :
        LET calls_ == SelectSeq(trace[t], IsBusCall)
        IN /\ Len(C8_Failed(trace[t])) <= 1
           /\ C8_Failed(trace[t]) # <<>> =>
                 /\ ~calls_[Len(calls_)][4]
                 /\ exc[t] = "OSError"
                 /\ pc[t] \in InWith \cup {"raised"}
                 /\ result[t] = <<>>
                 /\ op[t] = "__init__" => ~constructed[self[t]]
           /\ pc[t] = "returned" => C8_Failed(trace[t]) = <<>>
           /\ (pc[t] = "raised" /\ exc[t] = "OSError") =>
                 (Len(C8_Failed(trace[t])) = 1 /\ trace[t][Len(trace[t])] = EvExit)

\* C8, as claimed: the above, and an operation that fails leaves none of its
\* effects behind: a construction that raised has made either none or both of
\* its two configuration writes.
C8_NoPartialEffects ==
    /\ C8_FailsAsAWhole
    /\ \A t \in Threads :
          (op[t] = "__init__" /\ pc[t] = "raised") =>
              Len(ConfigWrites(trace[t])) \in {0, 2}

\* A construction that raised after its write to CTRL_REG0 went through.
C8_Witness ==
    \E t \in Threads :
        /\ op[t] = "__init__" /\ pc[t] = "raised" /\ exc[t] = "OSError"
        /\ Len(ConfigWrites(trace[t])) = 1

\* C9: a construction with a range outside {250, 500, 1000, 2000} fails at the
\* assert (AssertionError, the InvalidConfiguration of the specification) before
\* any bus call, and no driver object ever has a fifth range.
C9_InvalidRangeRejected ==
    /\ \A t \in Threads :
          (op[t] = "__init__" /\ arg[t] \notin {250, 500, 1000, 2000}) =>
              /\ pc[t] = "raised" /\ exc[t] = "AssertionError"
              /\ trace[t] = <<>>
              /\ result[t] = <<>>
    /\ \A d \in Drivers :
          /\ gyro_range[d] = <<>> \/ gyro_range[d][1] \in {250, 500, 1000, 2000}
          /\ constructed[d] => gyro_range[d] # <<>>

C9_Witness ==
    \E t \in Threads :
        /\ op[t] = "__init__" /\ arg[t] = 125 /\ pc[t] = "raised"
        /\ exc[t] = "AssertionError" /\ calls[t] >= 2

\* At most one caller inside a with block; a step that changes the buffer is a
\* step of a caller inside one; the step that parses the buffer.
C10_OneInWith == Cardinality({t \in Threads : pc[t] \in InWith}) <= 1

C10_WritesInWith ==
    BUFFER' # BUFFER =>
        \E t \in Threads : pc[t] \in InWith /\ pc'[t] # pc[t] /\ owner' = t

C10_ParseStep ==
    \A t \in Threads :
        (pc[t] = "rr_parse" /\ pc'[t] # "rr_parse") =>
            raw'[t] = C4_Expected(IF owner = t THEN got[t] ELSE BUFFER)

====
